---------------------------- MODULE Spec2Model ----------------------------
(***************************************************************************)
(* The to-do backend of src/backend/main.go: the Task record, the two      *)
(* StorageBackend implementations (InMemoryStorage, GCSStorage) and the    *)
(* four task handlers (getTasks, createTask, updateTask, deleteTask), each *)
(* split at the storage calls where other requests can interleave.         *)
(***************************************************************************)
EXTENDS Naturals, Sequences, FiniteSets, Bags, TLC

VARIABLES
  mode,      \* useLocalStorage: "mem" (InMemoryStorage) or "gcs" (GCSStorage)
  tasks,     \* InMemoryStorage.tasks: map[string]Task
  bucket,    \* the GCS bucket: object name -> object content
  slots,     \* one entry per request goroutine: its position and locals
  nextUuid,  \* how many UUIDs uuid.New() has handed out so far, plus one
  now,       \* the reading time.Now() returns next
  quota,     \* the requests the clients have yet to send
  deleted,   \* history: the ids whose DELETE was answered 200
  response   \* the response the last step wrote, if it wrote one

vars == <<mode, tasks, bucket, slots, nextUuid, now, quota, deleted, response>>

-----------------------------------------------------------------------------
(* Bounds *)

\* the requests the clients send in all
MaxRequests == 3
\* number of concurrent creates of the concurrent-create scenario
MaxCreates == 3
\* the listings asked of a bucket that holds undecodable objects
MaxListings == 2

-----------------------------------------------------------------------------
(* Values *)

\* (mutant) uuid.New() returning the value it returned before
UuidNewRepeated(n) == "u1"

\* uuid.New().String(): the n-th call returns a value no earlier call returned
UuidNew(n) == "u" \o ToString(n)

\* the {id} a client may put in the path of PUT and DELETE: an id the
\* server has handed out, or a string it never handed out
MissingId == "missing-id"
PathIds(n) == {UuidNew(i) : i \in 1..(n - 1)} \cup {MissingId}

\* the request goroutines that run at the same time
Workers == {"w1", "w2"}

\* time.Now(): a wall clock reading together with a monotonic clock reading
TimeNow(n) == [wall |-> n, mono |-> TRUE]


\* TaskUpdateRequest: a nil pointer is the absence of the field
NoField == [set |-> FALSE]
Field(v) == [set |-> TRUE, val |-> v]
Patch(text, completed) == [text |-> text, completed |-> completed]
\* one body for each subset of the two fields
Patches ==
  { Patch(NoField, NoField), Patch(Field(""), NoField),
    Patch(NoField, Field(TRUE)), Patch(Field("b"), Field(TRUE)) }

-----------------------------------------------------------------------------
(* Errors.  An error text is the sequence of its "/"-separated elements;   *)
(* the empty sequence is the nil error.                                     *)

Nil == <<>>

\* fmt.Errorf("task not found")
ErrTaskNotFound == <<"task not found">>

\* storage.ErrObjectNotExist
ErrObjectNotExist == <<"storage: object doesn't exist">>

\* fmt.Errorf(prefix + "%v", err)
Wrapf(prefix, err) == <<prefix \o err[1]>> \o Tail(err)

\* path.Base(err.Error()): the last element of the text
PathBase(err) == err[Len(err)]

isPermissionError(err) ==
  /\ err # Nil
  /\ \/ PathBase(err) = "403"
     \/ PathBase(err) = "forbidden"
     \/ PathBase(err) = "permission denied"

\* What a call to the bucket can come to.  The texts of a denial: the
\* googleapi error of a 403 answer, and a text whose last "/"-separated
\* element is the word forbidden.
DenialTexts ==
  { <<"googleapi: Error 403: Forbidden, forbidden">>,
    <<"googleapi: got HTTP response code 403 with body: https:", "forbidden">> }
FailureTexts == { <<"context deadline exceeded">> }

Ok == [kind |-> "ok"]
Denied(e) == [kind |-> "denied", err |-> e]
Failed(e) == [kind |-> "failed", err |-> e]

GcsOutcomes == {Ok} \cup {Denied(e) : e \in DenialTexts}
                    \cup {Failed(e) : e \in FailureTexts}

\* the in-memory map never fails: its calls have the one outcome
Outcomes(md) == IF md = "gcs" THEN GcsOutcomes ELSE {Ok}

-----------------------------------------------------------------------------
(* Task and its JSON form *)

Task(id, text, completed, createdAt) ==
  [id |-> id, text |-> text, completed |-> completed, createdAt |-> createdAt]

\* json.Marshal(task): time.Time is written as RFC 3339 with nanoseconds,
\* which keeps the wall clock reading and drops the monotonic one
MarshalTask(t) ==
  [kind |-> "json",
   id |-> t.id, text |-> t.text, completed |-> t.completed,
   createdAt |-> t.createdAt.wall]

\* an object whose content is not the JSON of a task
Garbage == [kind |-> "garbage"]

\* (mutant) a decoding that leaves CreatedAt at its zero value
UnmarshalTaskNoTime(content) ==
  [id |-> content.id, text |-> content.text, completed |-> content.completed,
   createdAt |-> [wall |-> 0, mono |-> FALSE]]

\* json.NewDecoder(reader).Decode(&task)
DecodeOk(content) == content.kind = "json"
UnmarshalTask(content) ==
  Task(content.id, content.text, content.completed,
       [wall |-> content.createdAt, mono |-> FALSE])


-----------------------------------------------------------------------------
(* Go maps *)

EmptyMap == << >>
MapPut(m, k, v) == [x \in DOMAIN m \cup {k} |-> IF x = k THEN v ELSE m[x]]
MapDelete(m, k) == [x \in DOMAIN m \ {k} |-> m[x]]

\* the values of a map as a slice whose order is unspecified: a multiset
MapValues(m) ==
  [v \in {m[k] : k \in DOMAIN m} |-> Cardinality({k \in DOMAIN m : m[k] = v})]

-----------------------------------------------------------------------------
(* InMemoryStorage.  Every method holds s.mutex from its first statement   *)
(* to its return, so each is one step on the map.                          *)

MemListTasks(m) == [tasks |-> MapValues(m), err |-> Nil]

\* (mutant) a create that writes a fresh map
MemCreateTaskFreshMap(m, task) ==
  [tasks |-> [x \in {task.id} |-> task], err |-> Nil]

MemCreateTask(m, task) ==
  [tasks |-> MapPut(m, task.id, task), err |-> Nil]

MemUpdateTask(m, task) ==
  IF task.id \notin DOMAIN m
    THEN [tasks |-> m, err |-> ErrTaskNotFound]
    ELSE [tasks |-> MapPut(m, task.id, task), err |-> Nil]

MemDeleteTask(m, taskID) ==
  IF taskID \notin DOMAIN m
    THEN [tasks |-> m, err |-> ErrTaskNotFound]
    ELSE [tasks |-> MapDelete(m, taskID), err |-> Nil]

MemGetTask(m, taskID) ==
  IF taskID \notin DOMAIN m
    THEN [found |-> FALSE, err |-> ErrTaskNotFound]
    ELSE [found |-> TRUE, task |-> m[taskID], err |-> Nil]

-----------------------------------------------------------------------------
(* GCSStorage.  Each call to the bucket is one step; `out` is what the      *)
(* call comes to (Ok, a denial, another failure).                           *)

\* fmt.Sprintf("task-%s.json", taskID)
ObjectName(taskID) == "task-" \o taskID \o ".json"

\* the names the bucket lists, in the order it lists them
ObjectNamesInOrder == [n \in 1..MaxRequests |-> ObjectName(UuidNew(n))]

\* Bucket.Objects(ctx, query) with it.Next() up to iterator.Done
GcsObjects(b, out) ==
  IF out.kind # "ok"
    THEN [names |-> << >>, err |-> Wrapf("error iterating objects: ", out.err)]
    ELSE [names |-> SelectSeq(ObjectNamesInOrder, LAMBDA nm : nm \in DOMAIN b),
          err |-> Nil]

\* (mutant) a loop body that appends the zero Task for a content that
\* does not decode
GcsListReadNoSkip(b, name, acc, out) ==
  IF out.kind # "ok" \/ name \notin DOMAIN b THEN acc
  ELSE IF ~DecodeOk(b[name])
    THEN acc (+) SetToBag({Task("", "", FALSE, [wall |-> 0, mono |-> FALSE])})
  ELSE acc (+) SetToBag({UnmarshalTask(b[name])})

\* the body of the loop of ListTasks for one listed object: a reader that
\* does not open and a content that does not decode are skipped
GcsListRead(b, name, acc, out) ==
  IF out.kind # "ok" \/ name \notin DOMAIN b THEN acc
  ELSE IF ~DecodeOk(b[name]) THEN acc
  ELSE acc (+) SetToBag({UnmarshalTask(b[name])})

\* (mutant) a create that fails when the object is there already
GcsCreateTaskIfAbsent(b, task, out) ==
  IF out.kind # "ok"
    THEN [bucket |-> b, err |-> Wrapf("error closing writer: ", out.err)]
  ELSE IF ObjectName(task.id) \in DOMAIN b
    THEN [bucket |-> b,
          err |-> Wrapf("error closing writer: ", <<"conditionNotMet">>)]
  ELSE [bucket |-> MapPut(b, ObjectName(task.id), MarshalTask(task)),
        err |-> Nil]

\* ObjectHandle.NewWriter, Write and Close: the object appears at Close
GcsCreateTask(b, task, out) ==
  IF out.kind # "ok"
    THEN [bucket |-> b, err |-> Wrapf("error closing writer: ", out.err)]
    ELSE [bucket |-> MapPut(b, ObjectName(task.id), MarshalTask(task)),
          err |-> Nil]

GcsUpdateTask(b, task, out) == GcsCreateTask(b, task, out)

\* DeleteTask up to the existence check: ObjectHandle.Attrs
GcsDeleteProbe(b, taskID, out) ==
  LET err == IF out.kind # "ok" THEN out.err
             ELSE IF ObjectName(taskID) \notin DOMAIN b THEN ErrObjectNotExist
             ELSE Nil
  IN  IF err # Nil THEN ErrTaskNotFound ELSE Nil

\* DeleteTask from the existence check on: ObjectHandle.Delete
GcsDeleteObject(b, taskID, out) ==
  LET err == IF out.kind # "ok" THEN out.err
             ELSE IF ObjectName(taskID) \notin DOMAIN b THEN ErrObjectNotExist
             ELSE Nil
  IN  IF err # Nil
        THEN [bucket |-> b, err |-> Wrapf("error deleting object: ", err)]
        ELSE [bucket |-> MapDelete(b, ObjectName(taskID)), err |-> Nil]

\* (mutant) a GetTask that returns the zero Task for a content that does
\* not decode
GcsGetTaskZeroOnGarbage(b, taskID, out) ==
  IF out.kind # "ok" \/ ObjectName(taskID) \notin DOMAIN b
    THEN [found |-> FALSE, err |-> ErrTaskNotFound]
  ELSE IF ~DecodeOk(b[ObjectName(taskID)])
    THEN [found |-> TRUE,
          task |-> Task("", "", FALSE, [wall |-> 0, mono |-> FALSE]),
          err |-> Nil]
  ELSE [found |-> TRUE, task |-> UnmarshalTask(b[ObjectName(taskID)]),
        err |-> Nil]

GcsGetTask(b, taskID, out) ==
  IF out.kind # "ok" \/ ObjectName(taskID) \notin DOMAIN b
    THEN [found |-> FALSE, err |-> ErrTaskNotFound]
  ELSE IF ~DecodeOk(b[ObjectName(taskID)])
    THEN [found |-> FALSE,
          err |-> Wrapf("error decoding task: ", <<"invalid character">>)]
  ELSE [found |-> TRUE, task |-> UnmarshalTask(b[ObjectName(taskID)]),
        err |-> Nil]

-----------------------------------------------------------------------------
(* The StorageBackend interface: the call goes to the variant chosen at    *)
(* start-up.                                                                *)

BackendCreateTask(md, t, b, task, out) ==
  IF md = "mem"
    THEN LET r == MemCreateTask(t, task)
         IN  [tasks |-> r.tasks, bucket |-> b, err |-> r.err]
    ELSE LET r == GcsCreateTask(b, task, out)
         IN  [tasks |-> t, bucket |-> r.bucket, err |-> r.err]

BackendUpdateTask(md, t, b, task, out) ==
  IF md = "mem"
    THEN LET r == MemUpdateTask(t, task)
         IN  [tasks |-> r.tasks, bucket |-> b, err |-> r.err]
    ELSE LET r == GcsUpdateTask(b, task, out)
         IN  [tasks |-> t, bucket |-> r.bucket, err |-> r.err]

BackendGetTask(md, t, b, taskID, out) ==
  IF md = "mem" THEN MemGetTask(t, taskID) ELSE GcsGetTask(b, taskID, out)

\* whether the variant holds something under the id
Holds(md, t, b, taskID) ==
  IF md = "mem" THEN taskID \in DOMAIN t ELSE ObjectName(taskID) \in DOMAIN b

-----------------------------------------------------------------------------
(* Requests and responses *)

Unparsable == [parsed |-> FALSE]

\* the bodies of POST /api/tasks
PostBodies ==
  {Unparsable} \cup
  { [parsed |-> TRUE, text |-> "", completed |-> FALSE],
    [parsed |-> TRUE, text |-> "a", completed |-> FALSE],
    [parsed |-> TRUE, text |-> "a", completed |-> TRUE] }

\* the bodies of PUT /api/tasks/{id}
PutBodies ==
  {Unparsable} \cup
  {[parsed |-> TRUE, text |-> p.text, completed |-> p.completed] :
     p \in Patches}

NoBody == [parsed |-> TRUE]
NoData == [kind |-> "none"]

\* A response, with what the handler met on the way to it:
\*   denied: a storage call of the request failed with an access denial
\*   absent: the id was not in storage when the handler's last storage call
\*           was applied
\*   calls:  the storage calls the handler made
\*   wrote:  the handler's last storage call changed storage
Resp(kind, id, req, status, data, denied, absent, calls, wrote) ==
  [kind |-> kind, id |-> id, req |-> req, status |-> status, data |-> data,
   denied |-> denied, absent |-> absent, calls |-> calls, wrote |-> wrote]

NoResp == Resp("none", "", NoBody, 0, NoData, FALSE, FALSE, 0, FALSE)

Idle == [pc |-> "idle"]

\* (mutant) no check of the text
ValidTextUnchecked(text) == TRUE

\* createTask, "Task text is required"
ValidText(text) == text # ""

\* (mutant) a merge that flips completed instead of setting it
ApplyUpdateToggle(existingTask, req) ==
  [existingTask EXCEPT
     !.text = IF req.text.set THEN req.text.val ELSE @,
     !.completed = IF req.completed.set THEN ~@ ELSE @]

\* (mutant) a merge that takes the fields of the body as they are, a field
\* not supplied being its zero value
ApplyUpdateWhole(existingTask, req) ==
  [existingTask EXCEPT
     !.text = IF req.text.set THEN req.text.val ELSE "",
     !.completed = IF req.completed.set THEN req.completed.val ELSE FALSE]

\* (mutant) a merge that keeps the text when the body's text is empty
ApplyUpdateNonEmpty(existingTask, req) ==
  [existingTask EXCEPT
     !.text = IF req.text.set /\ req.text.val # "" THEN req.text.val ELSE @,
     !.completed = IF req.completed.set THEN req.completed.val ELSE @]

\* updateTask, "Update fields if provided"
ApplyUpdate(existingTask, req) ==
  [existingTask EXCEPT
     !.text = IF req.text.set THEN req.text.val ELSE @,
     !.completed = IF req.completed.set THEN req.completed.val ELSE @]

\* createTask's and updateTask's answer to the error of the write
WriteStatus(err, okStatus) ==
  IF err = Nil THEN okStatus
  ELSE IF isPermissionError(err) THEN 403
  ELSE 500

\* updateTask's answer to the error of GetTask
GetStatus(err) == IF isPermissionError(err) THEN 403 ELSE 404

\* deleteTask's answer to the error of DeleteTask
DeleteStatus(err) ==
  IF err = Nil THEN 200
  ELSE IF isPermissionError(err) THEN 403
  ELSE IF err = ErrTaskNotFound THEN 404
  ELSE 500

-----------------------------------------------------------------------------
(* The handlers.  A handler's decoding and validation are local to the     *)
(* request and belong to the step of its first call to shared state.       *)

Respond(w, r) ==
  /\ slots' = [slots EXCEPT ![w] = Idle]
  /\ response' = r

\* a request arrives
Receive ==
  /\ quota > 0
  /\ quota' = quota - 1

\* createTask up to the call of CreateTask: decode, validate, uuid.New(),
\* time.Now()
createTask_New(w) ==
  /\ slots[w].pc = "idle"
  /\ Receive
  /\ \E body \in PostBodies :
       \/ /\ ~body.parsed
          /\ Respond(w, Resp("POST", "", body, 400, NoData, FALSE, FALSE, 0, FALSE))
          /\ UNCHANGED <<nextUuid, now>>
       \/ /\ body.parsed /\ ~ValidText(body.text)
          /\ Respond(w, Resp("POST", "", body, 400, NoData, FALSE, FALSE, 0, FALSE))
          /\ UNCHANGED <<nextUuid, now>>
       \/ /\ body.parsed /\ ValidText(body.text)
          /\ slots' = [slots EXCEPT ![w] =
               [pc |-> "create", req |-> body,
                task |-> Task(UuidNew(nextUuid), body.text, body.completed,
                              TimeNow(now))]]
          /\ nextUuid' = nextUuid + 1
          /\ now' = now + 1
          /\ response' = NoResp
  /\ UNCHANGED <<mode, tasks, bucket, deleted>>

\* createTask from the call of CreateTask on
createTask_Store(w) ==
  /\ slots[w].pc = "create"
  /\ \E out \in Outcomes(mode) :
       LET task == slots[w].task
           r == BackendCreateTask(mode, tasks, bucket, task, out)
       IN  /\ tasks' = r.tasks
           /\ bucket' = r.bucket
           /\ Respond(w, Resp("POST", task.id, slots[w].req,
                              WriteStatus(r.err, 201),
                              IF r.err = Nil THEN MarshalTask(task) ELSE NoData,
                              out.kind = "denied",
                              ~Holds(mode, tasks, bucket, task.id), 1,
                              r.tasks # tasks \/ r.bucket # bucket))
  /\ UNCHANGED <<mode, nextUuid, now, quota, deleted>>

\* (mutant) updateTask calling GetTask before it decodes the body
updateTask_GetThenDecode(w) ==
  /\ slots[w].pc = "idle"
  /\ Receive
  /\ \E taskID \in PathIds(nextUuid), body \in PutBodies, out \in Outcomes(mode) :
       LET g == BackendGetTask(mode, tasks, bucket, taskID, out)
       IN  IF g.err # Nil
             THEN Respond(w, Resp("PUT", taskID, body, GetStatus(g.err),
                                  NoData, out.kind = "denied",
                                  ~Holds(mode, tasks, bucket, taskID), 1, FALSE))
           ELSE IF ~body.parsed
             THEN Respond(w, Resp("PUT", taskID, body, 400, NoData, FALSE,
                                  FALSE, 1, FALSE))
           ELSE /\ slots' = [slots EXCEPT ![w] =
                     [pc |-> "update", id |-> taskID, req |-> body,
                      existingTask |-> g.task]]
                /\ response' = NoResp
  /\ UNCHANGED <<mode, tasks, bucket, nextUuid, now, deleted>>

\* updateTask up to the return of GetTask
updateTask_Get(w) ==
  /\ slots[w].pc = "idle"
  /\ Receive
  /\ \E taskID \in PathIds(nextUuid), body \in PutBodies, out \in Outcomes(mode) :
       \/ /\ ~body.parsed
          /\ out = Ok
          /\ Respond(w, Resp("PUT", taskID, body, 400, NoData, FALSE, FALSE, 0, FALSE))
       \/ /\ body.parsed
          /\ LET g == BackendGetTask(mode, tasks, bucket, taskID, out)
             IN  IF g.err # Nil
                   THEN Respond(w, Resp("PUT", taskID, body, GetStatus(g.err),
                                        NoData, out.kind = "denied",
                                        ~Holds(mode, tasks, bucket, taskID), 1,
                                        FALSE))
                   ELSE /\ slots' = [slots EXCEPT ![w] =
                             [pc |-> "update", id |-> taskID, req |-> body,
                              existingTask |-> g.task]]
                        /\ response' = NoResp
  /\ UNCHANGED <<mode, tasks, bucket, nextUuid, now, deleted>>

\* updateTask from the return of GetTask on: merge, UpdateTask, answer
updateTask_Update(w) ==
  /\ slots[w].pc = "update"
  /\ \E out \in Outcomes(mode) :
       LET merged == ApplyUpdate(slots[w].existingTask, slots[w].req)
           r == BackendUpdateTask(mode, tasks, bucket, merged, out)
       IN  /\ tasks' = r.tasks
           /\ bucket' = r.bucket
           /\ Respond(w, Resp("PUT", slots[w].id, slots[w].req,
                              WriteStatus(r.err, 200),
                              IF r.err = Nil THEN MarshalTask(merged) ELSE NoData,
                              out.kind = "denied",
                              ~Holds(mode, tasks, bucket, slots[w].id), 2,
                              r.tasks # tasks \/ r.bucket # bucket))
  /\ UNCHANGED <<mode, nextUuid, now, quota, deleted>>

\* deleteTask: all of it on the in-memory map, up to the existence check
\* on the bucket
deleteTask_Delete(w) ==
  /\ slots[w].pc = "idle"
  /\ Receive
  /\ \E taskID \in PathIds(nextUuid), out \in Outcomes(mode) :
       \/ /\ mode = "mem"
          /\ LET r == MemDeleteTask(tasks, taskID)
             IN  /\ tasks' = r.tasks
                 /\ deleted' = IF r.err = Nil THEN deleted \cup {taskID}
                               ELSE deleted
                 /\ Respond(w, Resp("DELETE", taskID, NoBody,
                                    DeleteStatus(r.err), NoData, FALSE,
                                    taskID \notin DOMAIN tasks, 1,
                                    r.tasks # tasks))
       \/ /\ mode = "gcs"
          /\ LET err == GcsDeleteProbe(bucket, taskID, out)
             IN  IF err # Nil
                   THEN Respond(w, Resp("DELETE", taskID, NoBody,
                                        DeleteStatus(err), NoData,
                                        out.kind = "denied",
                                        ObjectName(taskID) \notin DOMAIN bucket,
                                        1, FALSE))
                   ELSE /\ slots' = [slots EXCEPT ![w] =
                             [pc |-> "remove", id |-> taskID]]
                        /\ response' = NoResp
          /\ UNCHANGED <<tasks, deleted>>
  /\ UNCHANGED <<mode, bucket, nextUuid, now>>

\* deleteTask on the bucket from the existence check on
deleteTask_Remove(w) ==
  /\ slots[w].pc = "remove"
  /\ \E out \in Outcomes(mode) :
       LET r == GcsDeleteObject(bucket, slots[w].id, out)
       IN  /\ bucket' = r.bucket
           /\ deleted' = IF r.err = Nil THEN deleted \cup {slots[w].id}
                         ELSE deleted
           /\ Respond(w, Resp("DELETE", slots[w].id, NoBody,
                              DeleteStatus(r.err), NoData, out.kind = "denied",
                              ObjectName(slots[w].id) \notin DOMAIN bucket, 2,
                              r.bucket # bucket))
  /\ UNCHANGED <<mode, tasks, nextUuid, now, quota>>

\* the JSON array of a listing
MarshalTasks(ts) ==
  [kind |-> "array",
   items |-> [j \in {MarshalTask(t) : t \in BagToSet(ts)} |->
                BagCardinality([t \in {u \in BagToSet(ts) : MarshalTask(u) = j}
                                  |-> ts[t]])]]

ListResp(status, data, n) ==
  Resp("GET", "", NoBody, status, data, FALSE, FALSE, n, FALSE)

\* getTasks: all of it on the in-memory map, up to the end of the
\* enumeration on the bucket
getTasks_List(w) ==
  /\ slots[w].pc = "idle"
  /\ Receive
  /\ \E out \in Outcomes(mode) :
       \/ /\ mode = "mem"
          /\ Respond(w, ListResp(200, MarshalTasks(MemListTasks(tasks).tasks), 1))
       \/ /\ mode = "gcs"
          /\ LET it == GcsObjects(bucket, out)
             IN  IF it.err # Nil THEN Respond(w, ListResp(500, NoData, 1))
                 ELSE IF it.names = << >>
                   THEN Respond(w, ListResp(200, MarshalTasks(EmptyBag), 1))
                 ELSE /\ slots' = [slots EXCEPT ![w] =
                           [pc |-> "read", names |-> it.names, acc |-> EmptyBag]]
                      /\ response' = NoResp
  /\ UNCHANGED <<mode, tasks, bucket, nextUuid, now, deleted>>

\* getTasks on the bucket: one turn of the loop of ListTasks
getTasks_Read(w) ==
  /\ slots[w].pc = "read"
  /\ \E out \in Outcomes(mode) :
       LET acc == GcsListRead(bucket, Head(slots[w].names), slots[w].acc, out)
           rest == Tail(slots[w].names)
       IN  IF rest = << >>
             THEN Respond(w, ListResp(200, MarshalTasks(acc), 2))
             ELSE /\ slots' = [slots EXCEPT ![w] =
                       [pc |-> "read", names |-> rest, acc |-> acc]]
                  /\ response' = NoResp
  /\ UNCHANGED <<mode, tasks, bucket, nextUuid, now, quota, deleted>>

-----------------------------------------------------------------------------
(* The service: MaxRequests requests, either storage variant *)

Init ==
  /\ mode \in {"mem", "gcs"}
  /\ tasks = EmptyMap
  /\ bucket = EmptyMap
  /\ slots = [w \in Workers |-> Idle]
  /\ nextUuid = 1
  /\ now = 1
  /\ quota = MaxRequests
  /\ deleted = {}
  /\ response = NoResp

Next ==
  \/ \E w \in DOMAIN slots : createTask_New(w)
  \/ \E w \in DOMAIN slots : createTask_Store(w)
  \/ \E w \in DOMAIN slots : updateTask_Get(w)
  \/ \E w \in DOMAIN slots : updateTask_Update(w)
  \/ \E w \in DOMAIN slots : deleteTask_Delete(w)
  \/ \E w \in DOMAIN slots : deleteTask_Remove(w)
  \/ \E w \in DOMAIN slots : getTasks_List(w)
  \/ \E w \in DOMAIN slots : getTasks_Read(w)

Spec == Init /\ [][Next]_vars

-----------------------------------------------------------------------------
(* The storage methods and the handlers run from start to end with no      *)
(* other request in between and every call to the bucket succeeding.       *)

\* GCSStorage.DeleteTask: the existence check, then the deletion
GcsDeleteTask(b, taskID, probe, out) ==
  LET err == GcsDeleteProbe(b, taskID, probe)
  IN  IF err # Nil THEN [bucket |-> b, err |-> err]
      ELSE GcsDeleteObject(b, taskID, out)

RECURSIVE GcsListLoop(_, _, _)
GcsListLoop(b, names, acc) ==
  IF names = << >> THEN acc
  ELSE GcsListLoop(b, Tail(names), GcsListRead(b, Head(names), acc, Ok))

\* GCSStorage.ListTasks
GcsListTasks(b) ==
  LET it == GcsObjects(b, Ok)
  IN  [tasks |-> GcsListLoop(b, it.names, EmptyBag), err |-> it.err]

BackendDeleteTask(md, t, b, taskID) ==
  IF md = "mem"
    THEN LET r == MemDeleteTask(t, taskID)
         IN  [tasks |-> r.tasks, bucket |-> b, err |-> r.err]
    ELSE LET r == GcsDeleteTask(b, taskID, Ok, Ok)
         IN  [tasks |-> t, bucket |-> r.bucket, err |-> r.err]

BackendListTasks(md, t, b) ==
  IF md = "mem" THEN MemListTasks(t) ELSE GcsListTasks(b)

\* updateTask with a parsable body
updateTask(md, t, b, taskID, req) ==
  LET g == BackendGetTask(md, t, b, taskID, Ok)
  IN  IF g.err # Nil
        THEN [tasks |-> t, bucket |-> b, status |-> GetStatus(g.err),
              data |-> NoData]
        ELSE LET merged == ApplyUpdate(g.task, req)
                 r == BackendUpdateTask(md, t, b, merged, Ok)
             IN  [tasks |-> r.tasks, bucket |-> r.bucket,
                  status |-> WriteStatus(r.err, 200),
                  data |-> IF r.err = Nil THEN MarshalTask(merged) ELSE NoData]

\* deleteTask
deleteTask(md, t, b, taskID) ==
  LET r == BackendDeleteTask(md, t, b, taskID)
  IN  [tasks |-> r.tasks, bucket |-> r.bucket, status |-> DeleteStatus(r.err)]

\* the ids of the tasks of a listing
ListedIds(ts) == {x.id : x \in BagToSet(ts)}

-----------------------------------------------------------------------------
(* Claims *)

\* C1: once a DELETE of id X was answered 200, every later get, update or
\* delete of X at the storage interface fails with "task not found", PUT and
\* DELETE of X are answered 404, and X is not in a later listing.
C1_DeletedStaysNotFound ==
  \A x \in deleted :
    /\ BackendGetTask(mode, tasks, bucket, x, Ok).err = ErrTaskNotFound
    /\ \A c \in BOOLEAN :
         BackendUpdateTask(mode, tasks, bucket, Task(x, "a", c, TimeNow(1)), Ok).err
           = ErrTaskNotFound
    /\ BackendDeleteTask(mode, tasks, bucket, x).err = ErrTaskNotFound
    /\ \A p \in Patches : updateTask(mode, tasks, bucket, x, p).status = 404
    /\ deleteTask(mode, tasks, bucket, x).status = 404
    /\ x \notin ListedIds(BackendListTasks(mode, tasks, bucket).tasks)

\* deleteTask's classes of an error of the storage interface
ErrClass(err) ==
  IF err = Nil THEN "OK"
  ELSE IF isPermissionError(err) THEN "PermissionDenied"
  ELSE IF err = ErrTaskNotFound THEN "NotFound"
  ELSE "Internal"

-----------------------------------------------------------------------------
(* The two variants side by side: every call of the storage interface goes *)
(* to both, from the same (empty) contents, every call to the bucket       *)
(* succeeding.                                                              *)

ContractIds == {UuidNew(1), UuidNew(2)}
ContractTasks ==
  {Task(x, tx, c, TimeNow(1)) : x \in ContractIds, tx \in {"a", "b"}, c \in BOOLEAN}

Called(op, taskID, wasHeld, memErr, gcsErr) ==
  [kind |-> "call", op |-> op, id |-> taskID, wasHeld |-> wasHeld,
   mem |-> ErrClass(memErr), gcs |-> ErrClass(gcsErr)]

Call_CreateTask ==
  /\ \E task \in ContractTasks :
       LET m == MemCreateTask(tasks, task)
           g == GcsCreateTask(bucket, task, Ok)
       IN  /\ tasks' = m.tasks
           /\ bucket' = g.bucket
           /\ response' = Called("create", task.id, task.id \in DOMAIN tasks,
                                 m.err, g.err)
  /\ UNCHANGED <<mode, slots, nextUuid, now, quota, deleted>>

Call_UpdateTask ==
  /\ \E task \in ContractTasks :
       LET m == MemUpdateTask(tasks, task)
           g == GcsUpdateTask(bucket, task, Ok)
       IN  /\ tasks' = m.tasks
           /\ bucket' = g.bucket
           /\ response' = Called("update", task.id, task.id \in DOMAIN tasks,
                                 m.err, g.err)
  /\ UNCHANGED <<mode, slots, nextUuid, now, quota, deleted>>

Call_DeleteTask ==
  /\ \E taskID \in ContractIds :
       LET m == MemDeleteTask(tasks, taskID)
           g == GcsDeleteTask(bucket, taskID, Ok, Ok)
       IN  /\ tasks' = m.tasks
           /\ bucket' = g.bucket
           /\ response' = Called("delete", taskID, taskID \in DOMAIN tasks,
                                 m.err, g.err)
  /\ UNCHANGED <<mode, slots, nextUuid, now, quota, deleted>>

Call_GetTask ==
  /\ \E taskID \in ContractIds :
       response' = Called("get", taskID, taskID \in DOMAIN tasks,
                          MemGetTask(tasks, taskID).err,
                          GcsGetTask(bucket, taskID, Ok).err)
  /\ UNCHANGED <<mode, tasks, bucket, slots, nextUuid, now, quota, deleted>>

Call_ListTasks ==
  /\ response' = Called("list", "", FALSE, MemListTasks(tasks).err,
                        GcsListTasks(bucket).err)
  /\ UNCHANGED <<mode, tasks, bucket, slots, nextUuid, now, quota, deleted>>

InitContract ==
  /\ mode = "both"
  /\ tasks = EmptyMap
  /\ bucket = EmptyMap
  /\ slots = << >>
  /\ nextUuid = 1
  /\ now = 1
  /\ quota = 0
  /\ deleted = {}
  /\ response = NoResp

NextContract ==
  \/ Call_CreateTask
  \/ Call_UpdateTask
  \/ Call_DeleteTask
  \/ Call_GetTask
  \/ Call_ListTasks

SpecContract == InitContract /\ [][NextContract]_vars

-----------------------------------------------------------------------------
(* N creates at the same time on the in-memory map, then a listing *)

CreatesDone == \A w \in DOMAIN slots : slots[w].pc = "idle"

InitCreates ==
  /\ mode = "mem"
  /\ tasks = EmptyMap
  /\ bucket = EmptyMap
  /\ slots = [w \in 1..MaxCreates |-> Idle]
  /\ nextUuid = 1
  /\ now = 1
  /\ quota = MaxCreates + 1
  /\ deleted = {}
  /\ response = NoResp

NextCreates ==
  \/ \E w \in DOMAIN slots : createTask_New(w)
  \/ \E w \in DOMAIN slots : createTask_Store(w)
  \/ \E w \in DOMAIN slots : CreatesDone /\ getTasks_List(w)

SpecCreates == InitCreates /\ [][NextCreates]_vars

-----------------------------------------------------------------------------
(* Claims, continued *)

\* C3: on the same calls the two variants return the same class of outcome
\* and hold the same tasks afterwards; UpdateTask of an absent id fails with
\* "task not found" in both.
C3_SameContract ==
  response.kind = "call"
    => /\ response.mem = response.gcs
       /\ MarshalTasks(MemListTasks(tasks).tasks)
            = MarshalTasks(GcsListTasks(bucket).tasks)
       /\ (response.op = "update" /\ ~response.wasHeld)
            => (response.mem = "NotFound" /\ response.gcs = "NotFound")

\* C8: each of the concurrent creates is answered 201, and a listing made
\* once they are all answered holds exactly the tasks created, each once.
C8_ConcurrentCreates ==
  /\ (response.kind = "POST" /\ response.req.parsed
        /\ ValidText(response.req.text))
       => (response.status = 201 /\ response.wrote)
  /\ response.kind = "GET"
       => /\ response.status = 200
          /\ {j.id : j \in DOMAIN response.data.items}
               = {UuidNew(n) : n \in 1..(nextUuid - 1)}
          /\ \A j \in DOMAIN response.data.items : response.data.items[j] = 1
          /\ Cardinality(DOMAIN response.data.items) = nextUuid - 1

\* C8 witness: the listing after MaxCreates creates
C8_Witness ==
  /\ response.kind = "GET"
  /\ nextUuid - 1 = MaxCreates
  /\ Cardinality(DOMAIN response.data.items) = MaxCreates

\* C2: a PUT whose id is absent from storage when its last storage call is
\* applied is answered 404 and leaves storage as it was.
C2_PutAbsentIs404 ==
  (response.kind = "PUT" /\ response.absent)
    => (response.status = 404 /\ ~response.wrote)

\* C4: a POST whose text is empty is answered 400, makes no storage call and
\* leaves storage as it was.
C4_EmptyTextRejected ==
  [][(response'.kind = "POST" /\ response'.req.parsed
        /\ response'.req.text = "")
      => /\ response'.status = 400
         /\ response'.calls = 0
         /\ tasks' = tasks /\ bucket' = bucket
         /\ \A w \in DOMAIN slots : slots'[w].pc = "create" => slots[w].pc = "create"]_vars

\* C4 witness: a POST with empty text has just been answered
C4_Witness ==
  /\ response.kind = "POST" /\ response.req.parsed /\ response.req.text = ""
  /\ response.status = 400
  /\ BackendListTasks(mode, tasks, bucket).tasks # EmptyBag

\* C5: every POST answered 201 returned a non-empty id that no task in
\* storage had when the task was stored, and no two stored tasks share an id.
C5_IdsUnique ==
  /\ (response.kind = "POST" /\ response.status = 201)
       => /\ response.id # ""
          /\ response.data.id = response.id
          /\ response.absent
  /\ LET listed == BackendListTasks(mode, tasks, bucket).tasks
     IN  \A x \in BagToSet(listed) :
           /\ listed[x] = 1
           /\ \A y \in BagToSet(listed) : x.id = y.id => x = y

\* C5 witness: the second task has just been created beside the first
C5_Witness ==
  /\ response.kind = "POST" /\ response.status = 201
  /\ Cardinality(ListedIds(BackendListTasks(mode, tasks, bucket).tasks)) >= 2

\* C6: right after a POST was answered 201 with task T, GetTask of T's id
\* returns a task equal to T in id, text, completed and createdAt, and a
\* listing holds that task once.
C6_CreateRoundTrip ==
  (response.kind = "POST" /\ response.status = 201)
    => LET g == BackendGetTask(mode, tasks, bucket, response.id, Ok)
           listed == MarshalTasks(BackendListTasks(mode, tasks, bucket).tasks)
       IN  /\ g.err = Nil
           /\ MarshalTask(g.task) = response.data
           /\ response.data \in DOMAIN listed.items
           /\ listed.items[response.data] = 1

\* C6 witness: a task has just been created on the bucket beside another
C6_Witness ==
  /\ response.kind = "POST" /\ response.status = 201
  /\ mode = "gcs"
  /\ response.data.completed
  /\ Cardinality(DOMAIN bucket) = 2

\* C7: right after a PUT was answered 200, the same PUT again leaves storage
\* as it is and is answered 200 with the same task.
C7_UpdateIdempotent ==
  (response.kind = "PUT" /\ response.status = 200)
    => LET again == updateTask(mode, tasks, bucket, response.id, response.req)
       IN  /\ again.tasks = tasks
           /\ again.bucket = bucket
           /\ again.status = 200
           /\ again.data = response.data

\* C7 witness: a PUT of both fields has just changed the stored task
C7_Witness ==
  /\ response.kind = "PUT" /\ response.status = 200
  /\ response.req.text.set /\ response.req.completed.set
  /\ response.wrote

\* what the variant holds under the id, as a task
Stored(md, t, b, taskID) == BackendGetTask(md, t, b, taskID, Ok).task

\* the fields of a task that a body does not supply are equal in x and y
SameUnsupplied(req, x, y) ==
  /\ ~req.text.set => x.text = y.text
  /\ ~req.completed.set => x.completed = y.completed

\* the step is worker w's write of a PUT that is answered 200
PutWritten(w) ==
  /\ slots[w].pc = "update"
  /\ slots'[w].pc = "idle"
  /\ response'.status = 200

\* C9 as claimed: a PUT answered 200 leaves id and createdAt as they are and
\* leaves every field it did not supply at the value storage held just
\* before the PUT's write.
C9_FrameOnStorage ==
  [][\A w \in DOMAIN slots :
       (PutWritten(w) /\ Holds(mode, tasks, bucket, slots[w].id))
         => LET before == Stored(mode, tasks, bucket, slots[w].id)
                after == Stored(mode, tasks', bucket', slots[w].id)
            IN  /\ MarshalTask(after).id = MarshalTask(before).id
                /\ MarshalTask(after).createdAt = MarshalTask(before).createdAt
                /\ SameUnsupplied(slots[w].req, after, before)]_vars

\* C9 as amended: a PUT answered 200 stores the task its GetTask read with
\* the supplied fields replaced: id, createdAt and every field not supplied
\* are as read, every field supplied is as supplied; and no step changes the
\* id or the createdAt of a task that stays in storage.
C9_FrameOnRead ==
  [][/\ \A w \in DOMAIN slots :
          PutWritten(w)
            => LET read == slots[w].existingTask
                   req == slots[w].req
                   after == Stored(mode, tasks', bucket', slots[w].id)
               IN  /\ after.id = read.id
                   /\ MarshalTask(after).createdAt = MarshalTask(read).createdAt
                   /\ SameUnsupplied(req, after, read)
                   /\ req.text.set => after.text = req.text.val
                   /\ req.completed.set => after.completed = req.completed.val
     /\ \A n \in 1..(nextUuid - 1) :
          (/\ Holds(mode, tasks, bucket, UuidNew(n))
           /\ Holds(mode, tasks', bucket', UuidNew(n)))
            => LET before == Stored(mode, tasks, bucket, UuidNew(n))
                   after == Stored(mode, tasks', bucket', UuidNew(n))
               IN  /\ after.id = UuidNew(n)
                   /\ before.id = UuidNew(n)
                   /\ MarshalTask(after).createdAt = MarshalTask(before).createdAt]_vars

\* C9 witness: a PUT of one field has been answered 200 while another PUT
\* of the same task, which read it before, has yet to write
C9_Witness ==
  /\ response.kind = "PUT" /\ response.status = 200 /\ response.wrote
  /\ ~response.req.text.set /\ response.req.completed.set
  /\ \E w \in DOMAIN slots :
       /\ slots[w].pc = "update"
       /\ slots[w].id = response.id
       /\ slots[w].req.text.set
       /\ MarshalTask(slots[w].existingTask) # response.data

\* C10: a create, update or delete answered after one of its storage calls
\* failed with an access denial is answered 403.
C10_DenialIs403 ==
  (response.kind \in {"POST", "PUT", "DELETE"} /\ response.denied)
    => response.status = 403

\* C16: a POST or PUT whose body does not parse, and a POST whose text is
\* empty, is answered 400 with no storage call made: storage is as it was
\* and no worker goes on to a storage call; for a PUT also when the id is
\* absent.
C16_InvalidNeverReachesStorage ==
  [][(/\ response'.kind \in {"POST", "PUT"}
      /\ \/ ~response'.req.parsed
         \/ response'.kind = "POST" /\ response'.req.text = "")
      => /\ response'.status = 400
         /\ response'.calls = 0
         /\ tasks' = tasks /\ bucket' = bucket
         /\ \A w \in DOMAIN slots :
              slots'[w].pc # "idle" => slots'[w] = slots[w]]_vars

\* C16 witness: a PUT with an unparsable body and an id absent from a
\* storage that holds a task has just been answered 400
C16_Witness ==
  /\ response.kind = "PUT" /\ ~response.req.parsed
  /\ response.status = 400
  /\ ~Holds(mode, tasks, bucket, response.id)
  /\ BackendListTasks(mode, tasks, bucket).tasks # EmptyBag

\* the body of a PUT that sets text to the empty string and nothing else
BlankText == Patch(Field(""), NoField)

\* C18: right after a POST was answered 201 the stored task has non-empty
\* text; a PUT that sets text to "" on a stored task is answered 200 and
\* leaves the task stored with empty text; and no PUT with a parsable body
\* is answered 400.
C18_TextCheckedAtCreateOnly ==
  /\ (response.kind = "POST" /\ response.status = 201)
       => /\ response.data.text # ""
          /\ Stored(mode, tasks, bucket, response.id).text # ""
  /\ \A n \in 1..(nextUuid - 1) :
       Holds(mode, tasks, bucket, UuidNew(n))
         => LET r == updateTask(mode, tasks, bucket, UuidNew(n), BlankText)
            IN  /\ r.status = 200
                /\ r.data.text = ""
                /\ Stored(mode, r.tasks, r.bucket, UuidNew(n)).text = ""
  /\ (response.kind = "PUT" /\ response.req.parsed)
       => /\ response.status # 400
          /\ (response.status = 200 /\ response.req.text = Field(""))
               => /\ response.data.text = ""
                  /\ Stored(mode, tasks, bucket, response.id).text = ""

\* C18 witness: a PUT that sets text to "" has just been answered 200 and
\* has changed the stored task
C18_Witness ==
  /\ response.kind = "PUT" /\ response.status = 200 /\ response.wrote
  /\ response.req.text = Field("")
  /\ Stored(mode, tasks, bucket, response.id).text = ""

\* C19: an id whose DELETE was answered 200 is not in storage afterwards.
C19_NoResurrection ==
  \A x \in deleted : ~Holds(mode, tasks, bucket, x)

\* C20: a DELETE whose calls to storage go through is answered 200 when the
\* id is in storage as its last call is applied and 404 when it is not (so
\* of two DELETEs of the same id, the one that comes second is answered
\* 404), and the id is absent afterwards.
C20_ConcurrentDeletes ==
  /\ \A w \in DOMAIN slots :
       slots[w].pc = "remove"
         => LET r == GcsDeleteObject(bucket, slots[w].id, Ok)
            IN  /\ DeleteStatus(r.err)
                     = IF ObjectName(slots[w].id) \in DOMAIN bucket
                         THEN 200 ELSE 404
                /\ ObjectName(slots[w].id) \notin DOMAIN r.bucket
  /\ mode = "mem"
       => \A x \in PathIds(nextUuid) :
            LET r == deleteTask(mode, tasks, bucket, x)
            IN  /\ r.status = IF x \in DOMAIN tasks THEN 200 ELSE 404
                /\ x \notin DOMAIN r.tasks

\* C17: in both variants CreateTask with an id that is in storage returns no
\* error, leaves the new task stored under the id, and leaves the number of
\* stored tasks and every other stored task as they were.
C17_CreateOverwrites ==
  \A task \in ContractTasks :
    /\ task.id \in DOMAIN tasks
         => LET m == MemCreateTask(tasks, task)
            IN  /\ m.err = Nil
                /\ MemGetTask(m.tasks, task.id).task = task
                /\ Cardinality(DOMAIN m.tasks) = Cardinality(DOMAIN tasks)
                /\ \A x \in DOMAIN tasks \ {task.id} :
                     /\ x \in DOMAIN m.tasks
                     /\ m.tasks[x] = tasks[x]
    /\ ObjectName(task.id) \in DOMAIN bucket
         => LET g == GcsCreateTask(bucket, task, Ok)
            IN  /\ g.err = Nil
                /\ MarshalTask(GcsGetTask(g.bucket, task.id, Ok).task)
                     = MarshalTask(task)
                /\ BagCardinality(GcsListTasks(g.bucket).tasks)
                     = BagCardinality(GcsListTasks(bucket).tasks)
                /\ \A nm \in DOMAIN bucket \ {ObjectName(task.id)} :
                     /\ nm \in DOMAIN g.bucket
                     /\ g.bucket[nm] = bucket[nm]

\* C17 witness: CreateTask has just been called with an id that was in
\* storage beside another task, and both variants returned no error
C17_Witness ==
  /\ response.kind = "call" /\ response.op = "create" /\ response.wasHeld
  /\ response.mem = "OK" /\ response.gcs = "OK"
  /\ Cardinality(DOMAIN tasks) = 2
  /\ Cardinality(DOMAIN bucket) = 2

-----------------------------------------------------------------------------
(* A bucket that holds objects written by others: under the names of two   *)
(* ids, the JSON of a task or a content that does not decode.  GetTask is   *)
(* called and listings are asked; the calls to the bucket may fail.         *)

BucketIds == {UuidNew(1), UuidNew(2)}

\* what an object under the prefix may hold
BucketObjects ==
  {MarshalTask(Task(x, "a", c, TimeNow(1))) : x \in BucketIds, c \in BOOLEAN}
    \cup {Garbage}

\* the buckets: each name absent or holding one of the contents
BucketContents ==
  UNION { [{ObjectName(x) : x \in ids} -> BucketObjects] :
            ids \in SUBSET BucketIds }

\* updateTask's classes of an error of GetTask
GetErrClass(err) ==
  IF err = Nil THEN "OK"
  ELSE IF isPermissionError(err) THEN "PermissionDenied"
  ELSE "NotFound"

\* the return of a call of GetTask, with what the call to the bucket came to
Got(taskID, out, r) ==
  [kind |-> "get", id |-> taskID, out |-> out.kind, found |-> r.found,
   err |-> r.err, data |-> IF r.found THEN MarshalTask(r.task) ELSE NoData]

Call_GcsGetTask ==
  /\ \E taskID \in PathIds(nextUuid), out \in GcsOutcomes :
       response' = Got(taskID, out, GcsGetTask(bucket, taskID, out))
  /\ UNCHANGED <<mode, tasks, bucket, slots, nextUuid, now, quota, deleted>>

InitBucket ==
  /\ mode = "gcs"
  /\ tasks = EmptyMap
  /\ bucket \in BucketContents
  /\ slots = [w \in Workers |-> Idle]
  /\ nextUuid = Cardinality(BucketIds) + 1
  /\ now = 2
  /\ quota = MaxListings
  /\ deleted = {}
  /\ response = NoResp

NextBucket ==
  \/ Call_GcsGetTask
  \/ \E w \in DOMAIN slots : getTasks_List(w)
  \/ \E w \in DOMAIN slots : getTasks_Read(w)

SpecBucket == InitBucket /\ [][NextBucket]_vars

\* the names of the objects of a bucket whose content decodes
Decodable(b) == {nm \in DOMAIN b : DecodeOk(b[nm])}

ListedSoFar(slot, resp) ==
  IF slot.pc = "read" THEN MarshalTasks(slot.acc) ELSE resp.data

\* C12: with every call to the bucket succeeding ListTasks returns the task
\* of each object that decodes, once for each such object, and nothing else;
\* a turn of its loop adds the task of the object when the object decodes
\* and adds nothing when it does not decode or does not open; a listing past
\* the enumeration is answered 200, and one answered otherwise is answered
\* 500 at the enumeration.
C12_ListBestEffort ==
  /\ [](LET r == GcsListTasks(bucket)
        IN  /\ r.err = Nil
            /\ MarshalTasks(r.tasks).items
                 = [j \in {bucket[nm] : nm \in Decodable(bucket)} |->
                      Cardinality({nm \in Decodable(bucket) : bucket[nm] = j})])
  /\ [][\A w \in DOMAIN slots :
          /\ (slots[w].pc = "read" /\ slots'[w] # slots[w])
               => LET nm == Head(slots[w].names)
                      before == MarshalTasks(slots[w].acc)
                      added == MarshalTasks(slots[w].acc
                                 (+) SetToBag({UnmarshalTask(bucket[nm])}))
                      after == ListedSoFar(slots'[w], response')
                  IN  /\ nm \in Decodable(bucket) => after \in {before, added}
                      /\ nm \notin Decodable(bucket) => after = before
                      /\ slots'[w].pc = "idle"
                           => /\ response'.kind = "GET"
                              /\ response'.status = 200
          /\ (slots[w].pc = "idle" /\ slots'[w].pc = "read")
               => /\ slots'[w].acc = EmptyBag
                  /\ {slots'[w].names[i] : i \in DOMAIN slots'[w].names}
                       = DOMAIN bucket]_vars
  /\ [][(quota' # quota /\ response'.kind = "GET")
          => /\ response'.status \in {200, 500}
             /\ response'.calls = 1
             /\ response'.status = 200 => DOMAIN bucket = {}]_vars

\* C12 witness: a listing of a bucket that holds an object that does not
\* decode and an object that decodes has just been answered 200 with the
\* one task
C12_Witness ==
  /\ response.kind = "GET" /\ response.status = 200
  /\ Cardinality(Decodable(bucket)) = 1
  /\ Cardinality(DOMAIN bucket) = 2
  /\ DOMAIN response.data.items = {bucket[nm] : nm \in Decodable(bucket)}

-----------------------------------------------------------------------------
(* InMemoryStorage with its sync.RWMutex as steps.  A goroutine calls a     *)
(* method, takes s.mutex (Lock or RLock), runs the body on the map, and     *)
(* releases s.mutex by the deferred Unlock or RUnlock as it returns.        *)
(* sync.RWMutex: a writer first takes the writers' mutex, which announces   *)
(* it, then waits for the readers inside to leave; a reader that arrives    *)
(* while a writer is announced blocks until that writer unlocks, and that   *)
(* writer's Unlock lets in every reader blocked on it.                      *)

Goroutines == {"g1", "g2", "g3"}

MutexOps == {"list", "create", "update", "delete", "get"}

\* the id and the tasks the calls are made with
MutexId == UuidNew(1)
MutexTask(op) ==
  IF op = "create" THEN Task(MutexId, "a", FALSE, TimeNow(1))
  ELSE Task(MutexId, "b", TRUE, TimeNow(1))

\* (mutant) every method taking the read lock
LockKindAllRead(op) == "r"

\* the lock a method takes: s.mutex.Lock() or s.mutex.RLock()
LockKind(op) == IF op \in {"create", "update", "delete"} THEN "w" ELSE "r"

\* a goroutine outside the methods
Resting == [pc |-> "idle", held |-> "none"]

\* a writer holds the writers' mutex: it is announced to the readers
WriterAnnounced(sl) ==
  \E g \in DOMAIN sl : sl[g].pc = "drain" \/ sl[g].held = "w"

\* the readers inside
ActiveReaders(sl) == {g \in DOMAIN sl : sl[g].held = "r"}

\* the return of a method
Returned(g, op, err) ==
  [kind |-> "return", g |-> g, op |-> op, err |-> ErrClass(err)]

\* a goroutine calls a method of the storage
Mem_Call(g) ==
  /\ slots[g].pc = "idle"
  /\ \E op \in MutexOps :
       slots' = [slots EXCEPT ![g] = [pc |-> "lock", held |-> "none", op |-> op]]
  /\ response' = NoResp
  /\ UNCHANGED <<mode, tasks, bucket, nextUuid, now, quota, deleted>>

\* s.mutex.Lock(), first half: take the writers' mutex
Mem_Lock(g) ==
  /\ slots[g].pc = "lock"
  /\ LockKind(slots[g].op) = "w"
  /\ ~WriterAnnounced(slots)
  /\ slots' = [slots EXCEPT ![g].pc = "drain"]
  /\ response' = NoResp
  /\ UNCHANGED <<mode, tasks, bucket, nextUuid, now, quota, deleted>>

\* s.mutex.Lock(), second half: wait for the readers inside to leave
Mem_Drain(g) ==
  /\ slots[g].pc = "drain"
  /\ ActiveReaders(slots) = {}
  /\ slots' = [slots EXCEPT ![g].pc = "in", ![g].held = "w"]
  /\ response' = NoResp
  /\ UNCHANGED <<mode, tasks, bucket, nextUuid, now, quota, deleted>>

\* s.mutex.RLock(): in at once, or blocked on the announced writer
Mem_RLock(g) ==
  /\ slots[g].pc = "lock"
  /\ LockKind(slots[g].op) = "r"
  /\ slots' = IF WriterAnnounced(slots)
                THEN [slots EXCEPT ![g].pc = "blocked"]
                ELSE [slots EXCEPT ![g].pc = "in", ![g].held = "r"]
  /\ response' = NoResp
  /\ UNCHANGED <<mode, tasks, bucket, nextUuid, now, quota, deleted>>

\* the body of the method on s.tasks
Mem_Access(g) ==
  /\ slots[g].pc = "in"
  /\ LET op == slots[g].op
         r == CASE op = "list" -> [tasks |-> tasks, err |-> MemListTasks(tasks).err]
                [] op = "create" -> MemCreateTask(tasks, MutexTask(op))
                [] op = "update" -> MemUpdateTask(tasks, MutexTask(op))
                [] op = "delete" -> MemDeleteTask(tasks, MutexId)
                [] op = "get" -> [tasks |-> tasks,
                                  err |-> MemGetTask(tasks, MutexId).err]
     IN  /\ tasks' = r.tasks
         /\ slots' = [slots EXCEPT ![g] =
              [pc |-> "unlock", held |-> slots[g].held, op |-> op, err |-> r.err]]
  /\ response' = NoResp
  /\ UNCHANGED <<mode, bucket, nextUuid, now, quota, deleted>>

\* (mutant) a method that unlocks only on the path that returns nil
Mem_UnlockOnSuccess(g) ==
  /\ slots[g].pc = "unlock"
  /\ slots' = [h \in DOMAIN slots |->
       IF h = g
         THEN IF slots[g].err = Nil THEN Resting
              ELSE [pc |-> "idle", held |-> slots[g].held]
       ELSE IF slots[g].err = Nil /\ slots[g].held = "w"
               /\ slots[h].pc = "blocked"
         THEN [slots[h] EXCEPT !.pc = "in", !.held = "r"]
       ELSE slots[h]]
  /\ response' = Returned(g, slots[g].op, slots[g].err)
  /\ UNCHANGED <<mode, tasks, bucket, nextUuid, now, quota, deleted>>

\* the return of the method: the deferred s.mutex.Unlock() or RUnlock()
Mem_Unlock(g) ==
  /\ slots[g].pc = "unlock"
  /\ slots' = [h \in DOMAIN slots |->
       IF h = g THEN Resting
       ELSE IF slots[g].held = "w" /\ slots[h].pc = "blocked"
         THEN [slots[h] EXCEPT !.pc = "in", !.held = "r"]
       ELSE slots[h]]
  /\ response' = Returned(g, slots[g].op, slots[g].err)
  /\ UNCHANGED <<mode, tasks, bucket, nextUuid, now, quota, deleted>>

InitMutex ==
  /\ mode = "mem"
  /\ tasks = EmptyMap
  /\ bucket = EmptyMap
  /\ slots = [g \in Goroutines |-> Resting]
  /\ nextUuid = 2
  /\ now = 2
  /\ quota = 0
  /\ deleted = {}
  /\ response = NoResp

NextMutex ==
  \/ \E g \in DOMAIN slots : Mem_Call(g)
  \/ \E g \in DOMAIN slots : Mem_Lock(g)
  \/ \E g \in DOMAIN slots : Mem_Drain(g)
  \/ \E g \in DOMAIN slots : Mem_RLock(g)
  \/ \E g \in DOMAIN slots : Mem_Access(g)
  \/ \E g \in DOMAIN slots : Mem_Unlock(g)

SpecMutex == InitMutex /\ [][NextMutex]_vars

\* C13: a goroutine in the body of a method holds the lock: in create,
\* update and delete the write lock, with no other goroutine holding the
\* lock; in list and get the read lock, with no goroutine holding the write
\* lock; and the map changes only in a step of a goroutine that holds the
\* write lock.
C13_MapUnderLock ==
  /\ [](\A g \in DOMAIN slots :
          slots[g].pc \in {"in", "unlock"}
            => /\ slots[g].op \in {"create", "update", "delete"}
                    => /\ slots[g].held = "w"
                       /\ \A h \in DOMAIN slots \ {g} : slots[h].held = "none"
               /\ slots[g].op \in {"list", "get"}
                    => /\ slots[g].held = "r"
                       /\ \A h \in DOMAIN slots \ {g} : slots[h].held # "w")
  /\ [][/\ tasks' # tasks
             => \E g \in DOMAIN slots :
                  /\ slots[g].pc = "in" /\ slots[g].held = "w"
                  /\ slots'[g].pc = "unlock"
        /\ \A g \in DOMAIN slots :
             (slots[g].pc # "unlock" /\ slots'[g].pc = "unlock")
               => slots[g].pc = "in" /\ slots[g].held # "none"]_vars

\* C13 witness: two readers are inside together while a writer waits for
\* them to leave
C13_Witness ==
  /\ \E g, h \in DOMAIN slots :
       /\ g # h
       /\ slots[g].pc = "in" /\ slots[g].held = "r" /\ slots[g].op = "list"
       /\ slots[h].pc = "in" /\ slots[h].held = "r" /\ slots[h].op = "get"
  /\ \E g \in DOMAIN slots : slots[g].pc = "drain"
  /\ tasks # EmptyMap

-----------------------------------------------------------------------------
(* The same under fair scheduling.  The Go scheduler runs every goroutine   *)
(* that can run, so a step that stays enabled is taken; the writers' mutex  *)
(* is a sync.Mutex, whose starvation mode hands the mutex to the goroutine  *)
(* that has waited longest, so a writer that can take it again and again is *)
(* not passed over forever.  Nothing obliges a goroutine to call a method.  *)

FairMutex ==
  \A g \in Goroutines :
    /\ SF_vars(Mem_Lock(g))
    /\ WF_vars(Mem_Drain(g))
    /\ WF_vars(Mem_RLock(g))
    /\ WF_vars(Mem_Access(g))
    /\ WF_vars(Mem_Unlock(g))

SpecMutexFair == InitMutex /\ [][NextMutex]_vars /\ FairMutex

\* a goroutine inside a method can take its next step
CanStep(g) ==
  ENABLED (Mem_Lock(g) \/ Mem_Drain(g) \/ Mem_RLock(g) \/ Mem_Access(g)
             \/ Mem_Unlock(g))

\* C14: while a goroutine is inside a method some goroutine inside a method
\* can step; a goroutine outside the methods holds no lock; and a goroutine
\* that has called a method comes to hold the lock, comes to the return, and
\* is then outside the method with the lock released.
C14_NoDeadlockAndProgress ==
  /\ []((\E g \in Goroutines : slots[g].pc # "idle")
          => \E g \in Goroutines : slots[g].pc # "idle" /\ CanStep(g))
  /\ [](\A g \in Goroutines : slots[g].pc = "idle" => slots[g].held = "none")
  /\ \A g \in Goroutines :
       /\ (slots[g].pc = "lock") ~> (slots[g].pc = "in" /\ slots[g].held # "none")
       /\ (slots[g].pc = "in") ~> (slots[g].pc = "unlock")
       /\ (slots[g].pc # "idle") ~> (slots[g] = Resting)

\* C14 witness: a method has just returned "task not found" and released
\* the write lock while another goroutine is blocked on the lock
C14_Witness ==
  /\ response.kind = "return" /\ response.err = "NotFound"
  /\ response.op \in {"update", "delete"}
  /\ slots[response.g] = Resting
  /\ \E g \in DOMAIN slots : slots[g].pc \in {"lock", "blocked", "drain"}
  /\ \A g \in DOMAIN slots : slots[g].held = "none"

-----------------------------------------------------------------------------
(* The router of main and corsMiddleware.  A path is the sequence of its   *)
(* "/"-separated elements.  mux.Router serves a request by the first route *)
(* whose path and method match, wrapped in the middlewares of r.Use; the   *)
(* middlewares run only for a request that a route matches.  A request     *)
(* whose path matches a route but whose method matches none is answered    *)
(* 405 by the router, and a request whose path matches no route 404.       *)

IdVar == "{id}"

\* the routes in the order main registers them
Routes ==
  << [path |-> <<"api", "tasks">>, method |-> "GET", handler |-> "getTasks"],
     [path |-> <<"api", "tasks">>, method |-> "POST", handler |-> "createTask"],
     [path |-> <<"api", "tasks", IdVar>>, method |-> "PUT",
      handler |-> "updateTask"],
     [path |-> <<"api", "tasks", IdVar>>, method |-> "DELETE",
      handler |-> "deleteTask"],
     [path |-> <<"health">>, method |-> "GET", handler |-> "healthCheck"],
     [path |-> <<"api", "bucket-info">>, method |-> "GET",
      handler |-> "getBucketInfo"] >>

\* the requests the clients send
Methods == {"GET", "POST", "PUT", "DELETE", "OPTIONS", "HEAD"}
Paths ==
  { <<"api", "tasks">>, <<"api", "tasks", UuidNew(1)>>,
    <<"api", "tasks", MissingId>>, <<"health">>, <<"api", "bucket-info">>,
    <<"api">>, <<"api", "tasks", UuidNew(1), "x">>, <<"index.html">> }

\* a route's path template matches a path: {id} matches any one element
PathMatches(template, path) ==
  /\ Len(template) = Len(path)
  /\ \A i \in 1..Len(template) : template[i] = IdVar \/ template[i] = path[i]

\* the paths the server serves
Served(path) == \E i \in DOMAIN Routes : PathMatches(Routes[i].path, path)

\* the routes that match the request, in order
Matching(method, path) ==
  SelectSeq(Routes, LAMBDA rt : PathMatches(rt.path, path) /\ rt.method = method)

\* an answer: who wrote it, whether it carries the three
\* Access-Control-Allow headers, its status (0: the handler's) and whether
\* it has a body
Answer(method, path, by, cors, status, body) ==
  [kind |-> "http", method |-> method, path |-> path, by |-> by,
   cors |-> cors, status |-> status, body |-> body]

\* corsMiddleware around the handler `next`
corsMiddleware(method, path, next) ==
  IF method = "OPTIONS"
    THEN Answer(method, path, "corsMiddleware", TRUE, 200, FALSE)
    ELSE Answer(method, path, next, TRUE, 0, TRUE)

\* mux.Router.ServeHTTP
ServeHTTP(method, path) ==
  IF Matching(method, path) # << >>
    THEN corsMiddleware(method, path, Head(Matching(method, path)).handler)
  ELSE IF Served(path)
    THEN Answer(method, path, "router", FALSE, 405, FALSE)
  ELSE Answer(method, path, "router", FALSE, 404, TRUE)

\* a request arrives on a connection
Router_Accept(c) ==
  /\ slots[c].pc = "idle"
  /\ \E method \in Methods, path \in Paths :
       slots' = [slots EXCEPT ![c] =
                   [pc |-> "request", method |-> method, path |-> path]]
  /\ response' = NoResp
  /\ UNCHANGED <<mode, tasks, bucket, nextUuid, now, quota, deleted>>

\* the router answers it, or hands it to a handler
Router_Serve(c) ==
  /\ slots[c].pc = "request"
  /\ Respond(c, ServeHTTP(slots[c].method, slots[c].path))
  /\ UNCHANGED <<mode, tasks, bucket, nextUuid, now, quota, deleted>>

InitRouter ==
  /\ mode \in {"mem", "gcs"}
  /\ tasks = EmptyMap
  /\ bucket = EmptyMap
  /\ slots = [c \in {"conn"} |-> Idle]
  /\ nextUuid = 2
  /\ now = 2
  /\ quota = 0
  /\ deleted = {}
  /\ response = NoResp

NextRouter ==
  \/ \E c \in DOMAIN slots : Router_Accept(c)
  \/ \E c \in DOMAIN slots : Router_Serve(c)

SpecRouter == InitRouter /\ [][NextRouter]_vars

\* C15: every answer carries the Access-Control-Allow headers, and an
\* OPTIONS request to a path the server serves is answered 200 with no body
\* by the middleware, no handler reached.
C15_CorsOnEveryResponse ==
  response.kind = "http"
    => /\ response.cors
       /\ (response.method = "OPTIONS" /\ Served(response.path))
            => /\ response.status = 200
               /\ ~response.body
               /\ response.by = "corsMiddleware"

=============================================================================
